---- MODULE Spec2Model ----
(***************************************************************************)
(* Model of src/index.py (BitvavoTrader): the cycle builder                *)
(* structure_triangular_pairs and the surface rate calculator              *)
(* cal_triangular_arb_surface_rate.                                        *)
(*                                                                         *)
(* A Python string is a sequence of one-character strings, so that split,  *)
(* sorted and join are computed character by character.  A Decimal is a    *)
(* pair <<n, d>> (the rational n/d, d > 0, in lowest terms), <<1, 0>> is   *)
(* Decimal('Infinity') and <<0, 0>> marks the operation on which the       *)
(* decimal context raises InvalidOperation (Infinity times zero).  The     *)
(* quote and fee values of the model all have results of fewer than ten    *)
(* significant digits, so the context precision (line 9) never rounds.     *)
(***************************************************************************)
EXTENDS Integers, Sequences, FiniteSets, TLC

VARIABLES
    coin_list,               \* argument of structure_triangular_pairs
    idx,                     \* number of pair_a iterations completed
    triangular_pairs_list,   \* line 74
    remove_duplicates_list,  \* line 75
    build_status,            \* "running", "returned", "raised"
    t_pair,                  \* arguments of cal_triangular_arb_surface_rate
    prices_dict,
    trading_fee,             \* self.trading_fee
    calc_pc,                 \* "idle", "forward", "reverse", "returned", "raised"
    swap_locals,             \* swap_2_rate .. contract_3, kept across iterations
    surface_dict             \* line 145

vars == <<coin_list, idx, triangular_pairs_list, remove_duplicates_list,
          build_status, t_pair, prices_dict, trading_fee, calc_pc,
          swap_locals, surface_dict>>

build_vars == <<coin_list, idx, triangular_pairs_list, remove_duplicates_list,
                build_status>>

calc_vars == <<t_pair, prices_dict, trading_fee, calc_pc, swap_locals,
               surface_dict>>

(***************************************************************************)
(* Strings                                                                 *)
(***************************************************************************)

\* code point of a character, the order Python compares strings by
Ord(ch) ==
    CASE ch = "," -> 44
      [] ch = "-" -> 45
      [] ch = "A" -> 65
      [] ch = "B" -> 66
      [] ch = "C" -> 67

RECURSIVE SplitFrom(_, _, _, _)
SplitFrom(s, i, cur, acc) ==
    IF i > Len(s) THEN Append(acc, cur)
    ELSE IF s[i] = "-" THEN SplitFrom(s, i + 1, <<>>, Append(acc, cur))
    ELSE SplitFrom(s, i + 1, Append(cur, s[i]), acc)

\* s.split('-')
Split(s) == SplitFrom(s, 1, <<>>, <<>>)

\* variant: the first two parts are taken, further parts are ignored
UnpacksLoose(s) == Len(Split(s)) >= 2

\* base, quote = s.split('-') succeeds (otherwise ValueError)
Unpacks(s) == Len(Split(s)) = 2

\* s < t for Python strings
StrLess(s, t) ==
    \E i \in 1..(Len(s) + 1) :
        /\ \A j \in 1..(i - 1) : j <= Len(t) /\ s[j] = t[j]
        /\ \/ i = Len(s) + 1 /\ i <= Len(t)
           \/ i <= Len(s) /\ i <= Len(t) /\ Ord(s[i]) < Ord(t[i])

RECURSIVE Insert(_, _)
Insert(x, l) ==
    IF l = <<>> THEN <<x>>
    ELSE IF StrLess(x, Head(l)) THEN <<x>> \o l
    ELSE <<Head(l)>> \o Insert(x, Tail(l))

RECURSIVE Sorted(_)
\* sorted(l)
Sorted(l) == IF l = <<>> THEN <<>> ELSE Insert(Head(l), Sorted(Tail(l)))

RECURSIVE Join(_)
\* ''.join(l)
Join(l) == IF l = <<>> THEN <<>> ELSE Head(l) \o Join(Tail(l))

\* box.count(x)
Count(box, x) == Cardinality({i \in DOMAIN box : box[i] = x})

InList(x, l) == \E i \in DOMAIN l : l[i] = x

(***************************************************************************)
(* structure_triangular_pairs                                              *)
(***************************************************************************)

\* line 89
SharesCurrency(b_base, b_quote, a_pair_box) ==
    InList(b_base, a_pair_box) \/ InList(b_quote, a_pair_box)

\* variant: without the test c_base != c_quote
ClosureCheckNoDistinct(pair_box, c_base, c_quote) ==
    Count(pair_box, c_base) = 2 /\ Count(pair_box, c_quote) = 2

\* lines 98-101
ClosureCheck(pair_box, c_base, c_quote) ==
    /\ Count(pair_box, c_base) = 2
    /\ Count(pair_box, c_quote) = 2
    /\ c_base # c_quote

\* variant: the key keeps the discovery order
UniqueItemUnsorted(combine_all) == Join(combine_all)

\* line 103
UniqueItem(combine_all) == Join(Sorted(combine_all))

\* lines 102, 105-116
MatchDict(pair_a, pair_b, pair_c) ==
    LET a == Split(pair_a)
        b == Split(pair_b)
        c == Split(pair_c)
    IN  [a_base |-> a[1], b_base |-> b[1], c_base |-> c[1],
         a_quote |-> a[2], b_quote |-> b[2], c_quote |-> c[2],
         pair_a |-> pair_a, pair_b |-> pair_b, pair_c |-> pair_c,
         combined |-> pair_a \o <<",">> \o pair_b \o <<",">> \o pair_c]

\* lines 95-118: the body of the pair_c loop, st = [tri, dup, err]
BodyC(st, pair_a, pair_b, pair_c) ==
    LET a == Split(pair_a)
        b == Split(pair_b)
        c == Split(pair_c)
        pair_box == <<a[1], a[2], b[1], b[2], c[1], c[2]>>
        unique_item == UniqueItem(<<pair_a, pair_b, pair_c>>)
    IN  IF /\ pair_c # pair_a
           /\ pair_c # pair_b
           /\ ClosureCheck(pair_box, c[1], c[2])
           /\ ~InList(unique_item, st.dup)
        THEN [st EXCEPT !.tri = Append(@, MatchDict(pair_a, pair_b, pair_c)),
                        !.dup = Append(@, unique_item)]
        ELSE st

RECURSIVE LoopC(_, _, _, _, _)
\* lines 91-93: for pair_c in pairs_list, from position k on
LoopC(st, pairs_list, pair_a, pair_b, k) ==
    IF k > Len(pairs_list) THEN st
    ELSE IF ~Unpacks(pairs_list[k]) THEN [st EXCEPT !.err = TRUE]
    ELSE LoopC(BodyC(st, pair_a, pair_b, pairs_list[k]),
               pairs_list, pair_a, pair_b, k + 1)

RECURSIVE LoopB(_, _, _, _)
\* lines 84-89: for pair_b in pairs_list, from position j on
LoopB(st, pairs_list, pair_a, j) ==
    IF j > Len(pairs_list) THEN st
    ELSE IF ~Unpacks(pairs_list[j]) THEN [st EXCEPT !.err = TRUE]
    ELSE LET pair_b == pairs_list[j]
             b == Split(pair_b)
             after == IF pair_b # pair_a
                         /\ SharesCurrency(b[1], b[2], Split(pair_a))
                      THEN LoopC(st, pairs_list, pair_a, pair_b, 1)
                      ELSE st
         IN  IF after.err THEN after
             ELSE LoopB(after, pairs_list, pair_a, j + 1)

\* lines 78-118: one iteration of the pair_a loop
IterationA(st, pairs_list, i) ==
    IF ~Unpacks(pairs_list[i]) THEN [st EXCEPT !.err = TRUE]
    ELSE LoopB(st, pairs_list, pairs_list[i], 1)

RECURSIVE LoopA(_, _, _)
LoopA(st, pairs_list, i) ==
    IF i > Len(pairs_list) \/ st.err THEN st
    ELSE LoopA(IterationA(st, pairs_list, i), pairs_list, i + 1)

\* lines 73-119: the whole call; err means the call raised ValueError
structure_triangular_pairs(list) ==
    LoopA([tri |-> <<>>, dup |-> <<>>, err |-> FALSE], list, 1)

(***************************************************************************)
(* Inputs of the builder                                                   *)
(***************************************************************************)

MaxMarkets == 4

Sym(base, quote) == base \o <<"-">> \o quote

\* six markets over currencies A, B, C, AB, BC: two triangles
PrefixMarkets ==
    { Sym(<<"B">>, <<"A">>), Sym(<<"B", "C">>, <<"A">>),
      Sym(<<"B", "C">>, <<"B">>),
      Sym(<<"B">>, <<"A", "B">>), Sym(<<"C">>, <<"B">>),
      Sym(<<"C">>, <<"A", "B">>) }

\* a triangle over A, B, BC, a market that shares only B with it, a reversed
\* market and a market whose base equals its quote
WellFormedSymbols ==
    { Sym(<<"B">>, <<"A">>), Sym(<<"B", "C">>, <<"A">>),
      Sym(<<"B", "C">>, <<"B">>), Sym(<<"C">>, <<"B">>),
      Sym(<<"A">>, <<"B">>), Sym(<<"A">>, <<"A">>) }

\* no separator, two separators
MalformedSymbols == { <<"A", "B">>, <<"A", "-", "B", "-", "A">> }

Symbols == WellFormedSymbols \cup MalformedSymbols

\* every list of at most MaxMarkets symbols, repetitions included
ShortLists == UNION { [1..n -> Symbols] : n \in 0..MaxMarkets }

\* every ordering of the six prefix markets
PrefixLists ==
    { l \in [1..Cardinality(PrefixMarkets) -> PrefixMarkets] :
        \A i, j \in DOMAIN l : i # j => l[i] # l[j] }

IdleLocals ==
    [swap_2_rate |-> "unbound", direction_trade_2 |-> "unbound",
     contract_2 |-> "unbound", swap_3_rate |-> "unbound",
     direction_trade_3 |-> "unbound", contract_3 |-> "unbound"]

InitBuild ==
    /\ coin_list \in ShortLists \cup PrefixLists
    /\ idx = 0
    /\ triangular_pairs_list = <<>>
    /\ remove_duplicates_list = <<>>
    /\ build_status = "running"
    /\ t_pair = "none"
    /\ prices_dict = <<>>
    /\ trading_fee = <<0, 1>>
    /\ calc_pc = "idle"
    /\ swap_locals = IdleLocals
    /\ surface_dict = <<>>

BuildState ==
    [tri |-> triangular_pairs_list, dup |-> remove_duplicates_list,
     err |-> FALSE]

\* one pair_a iteration that completes
BuildIter ==
    /\ build_status = "running"
    /\ idx < Len(coin_list)
    /\ LET r == IterationA(BuildState, coin_list, idx + 1)
       IN  /\ ~r.err
           /\ triangular_pairs_list' = r.tri
           /\ remove_duplicates_list' = r.dup
    /\ idx' = idx + 1
    /\ UNCHANGED <<coin_list, build_status>>
    /\ UNCHANGED calc_vars

\* one pair_a iteration in which an unpacking raises ValueError
BuildRaise ==
    /\ build_status = "running"
    /\ idx < Len(coin_list)
    /\ IterationA(BuildState, coin_list, idx + 1).err
    /\ build_status' = "raised"
    /\ idx' = idx + 1
    /\ UNCHANGED <<coin_list, triangular_pairs_list, remove_duplicates_list>>
    /\ UNCHANGED calc_vars

\* line 119
BuildReturn ==
    /\ build_status = "running"
    /\ idx = Len(coin_list)
    /\ build_status' = "returned"
    /\ UNCHANGED <<coin_list, idx, triangular_pairs_list,
                   remove_duplicates_list>>
    /\ UNCHANGED calc_vars

NextBuild == BuildIter \/ BuildRaise \/ BuildReturn

SpecBuild == InitBuild /\ [][NextBuild]_vars

(***************************************************************************)
(* Decimal arithmetic                                                      *)
(***************************************************************************)

Zero == <<0, 1>>
One == <<1, 1>>
Infinity == <<1, 0>>
Invalid == <<0, 0>>

RECURSIVE GCD(_, _)
GCD(a, b) == IF b = 0 THEN a ELSE GCD(b, a % b)

Norm(x) ==
    LET g == GCD(IF x[1] < 0 THEN -x[1] ELSE x[1], x[2])
    IN  IF g = 0 THEN Invalid ELSE <<x[1] \div g, x[2] \div g>>

\* x * y; Infinity * 0 is the InvalidOperation marker
Mul(x, y) == Norm(<<x[1] * y[1], x[2] * y[2]>>)

\* x - y, y finite
Sub(x, y) == Norm(<<x[1] * y[2] - y[1] * x[2], x[2] * y[2]>>)

\* x / y, y not zero; 1 / Infinity is 0
Div(x, y) == Norm(<<x[1] * y[2], x[2] * y[1]>>)

Less(x, y) == x[1] * y[2] < y[1] * x[2]

Leq(x, y) == x[1] * y[2] <= y[1] * x[2]

\* variant: an infinite denominator is treated like a zero one
SafeDivideNoInfinity(numerator, denominator) ==
    IF denominator # Zero /\ denominator # Infinity
    THEN Div(numerator, denominator)
    ELSE Infinity

\* lines 134-135
safe_divide(numerator, denominator) ==
    IF denominator # Zero THEN Div(numerator, denominator) ELSE Infinity

(***************************************************************************)
(* cal_triangular_arb_surface_rate                                         *)
(***************************************************************************)

\* prices_dict.get(market + suffix, default)
Get(prices, market, suffix, default) ==
    IF (market \o <<suffix>>) \in DOMAIN prices
    THEN prices[market \o <<suffix>>]
    ELSE default

\* prices_dict.get(market + '_ask', Decimal('Infinity'))
Ask(prices, market) == Get(prices, market, "_ask", Infinity)

\* prices_dict.get(market + '_bid', Decimal('0'))
Bid(prices, market) == Get(prices, market, "_bid", Zero)

\* lines 137-141
determine_swap_details(base, quote, ask, bid, direction) ==
    IF direction = "forward"
    THEN <<base, quote, safe_divide(One, ask), "base_to_quote">>
    ELSE <<quote, base, bid, "quote_to_base">>

\* the assignments of one branch: swap 2 on pair_b, swap 3 on pair_c
Swaps(t, prices, tag_2, tag_3) ==
    [swap_2_rate |-> IF tag_2 = "base_to_quote"
                     THEN safe_divide(One, Ask(prices, t.pair_b))
                     ELSE Bid(prices, t.pair_b),
     direction_trade_2 |-> tag_2,
     contract_2 |-> t.pair_b,
     swap_3_rate |-> IF tag_3 = "base_to_quote"
                     THEN safe_divide(One, Ask(prices, t.pair_c))
                     ELSE Bid(prices, t.pair_c),
     direction_trade_3 |-> tag_3,
     contract_3 |-> t.pair_c]

\* lines 163-202
ForwardSwaps(t, prices) ==
    IF t.a_quote = t.b_quote
    THEN Swaps(t, prices, "quote_to_base",
               IF t.b_base = t.c_base THEN "base_to_quote" ELSE "quote_to_base")
    ELSE IF t.a_quote = t.b_base
    THEN Swaps(t, prices, "base_to_quote",
               IF t.b_quote = t.c_base THEN "base_to_quote" ELSE "quote_to_base")
    ELSE Swaps(t, prices, "quote_to_base",
               IF t.b_quote = t.c_base THEN "base_to_quote" ELSE "quote_to_base")

\* lines 204-230: no branch assigns when a_base is neither b_base nor b_quote
ReverseSwaps(t, prices, locals) ==
    IF t.a_base = t.b_base
    THEN Swaps(t, prices, "base_to_quote",
               IF t.b_quote = t.c_quote THEN "quote_to_base" ELSE "base_to_quote")
    ELSE IF t.a_base = t.b_quote
    THEN Swaps(t, prices, "quote_to_base",
               IF t.b_base = t.c_quote THEN "quote_to_base" ELSE "base_to_quote")
    ELSE locals

\* variant: the fee is added instead of deducted
FeeFactorAdded(fee) == Sub(One, Sub(Zero, fee))

\* Decimal('1') - self.trading_fee
FeeFactor(fee) == Sub(One, fee)

\* lines 233-235
FinalAmount(starting_amount, rates, fee) ==
    LET after_1 == Mul(starting_amount, Mul(rates[1], FeeFactor(fee)))
        after_2 == Mul(after_1, Mul(rates[2], FeeFactor(fee)))
    IN  Mul(after_2, Mul(rates[3], FeeFactor(fee)))

\* lines 148-244: one iteration of the direction loop
Iteration(direction, t, prices, fee, locals) ==
    LET starting_amount == One
        first == determine_swap_details(t.a_base, t.a_quote,
                                        Ask(prices, t.pair_a),
                                        Bid(prices, t.pair_a), direction)
        acquired_coin_t1 == Mul(Mul(starting_amount, first[3]), FeeFactor(fee))
        loc == IF direction = "forward" THEN ForwardSwaps(t, prices)
               ELSE ReverseSwaps(t, prices, locals)
        bound == loc.swap_2_rate # "unbound" /\ loc.swap_3_rate # "unbound"
        final_amount ==
            FinalAmount(starting_amount,
                        <<first[3], loc.swap_2_rate, loc.swap_3_rate>>, fee)
        arbitrage_rate == Sub(Div(final_amount, starting_amount), One)
    IN  [locals |-> loc,
         err |-> IF acquired_coin_t1 = Invalid THEN "InvalidOperation"
                 ELSE IF ~bound THEN "UnboundLocalError"
                 ELSE IF final_amount = Invalid THEN "InvalidOperation"
                 ELSE "none",
         result |-> IF bound
                    THEN [swap_1 |-> first,
                          swap_2 |-> <<loc.contract_2, loc.swap_2_rate,
                                       loc.direction_trade_2>>,
                          swap_3 |-> <<loc.contract_3, loc.swap_3_rate,
                                       loc.direction_trade_3>>,
                          arbitrage_rate |-> arbitrage_rate]
                    ELSE "none"]

\* lines 143-246: the whole call, forward then reverse
cal_triangular_arb_surface_rate(t, prices, fee) ==
    LET fwd == Iteration("forward", t, prices, fee, IdleLocals)
        rev == Iteration("reverse", t, prices, fee, fwd.locals)
    IN  [forward |-> fwd, reverse |-> rev,
         err |-> IF fwd.err # "none" THEN fwd.err ELSE rev.err]

(***************************************************************************)
(* Inputs of the calculator                                                *)
(***************************************************************************)

\* the markets over A, B, BC from which the cycles are built: two triangles,
\* one of them with its markets chained base to quote all around
CalcSymbols ==
    { Sym(<<"A">>, <<"B">>), Sym(<<"B", "C">>, <<"A">>),
      Sym(<<"B", "C">>, <<"B">>), Sym(<<"B">>, <<"B", "C">>) }

CalcLists == [1..3 -> CalcSymbols]

Quotes == { Zero, <<1, 2>>, <<2, 1>> }

Fees == { Zero, <<1, 10>>, <<1, 2>> }

Markets(t) == {t.pair_a, t.pair_b, t.pair_c}

Keys(t) == { m \o <<s>> : m \in Markets(t), s \in {"_ask", "_bid"} }

\* every snapshot over the three markets: each quote absent or in Quotes
Snapshots(t) == UNION { [D -> Quotes] : D \in SUBSET Keys(t) }

InitCalc ==
    /\ coin_list \in CalcLists
    /\ idx = Len(coin_list)
    /\ ~structure_triangular_pairs(coin_list).err
    /\ triangular_pairs_list = structure_triangular_pairs(coin_list).tri
    /\ remove_duplicates_list = structure_triangular_pairs(coin_list).dup
    /\ build_status = "returned"
    /\ t_pair \in { triangular_pairs_list[i] : i \in DOMAIN triangular_pairs_list }
    /\ prices_dict \in Snapshots(t_pair)
    /\ trading_fee \in Fees
    /\ calc_pc = "forward"
    /\ swap_locals = IdleLocals
    /\ surface_dict = <<>>

CalcForward ==
    /\ calc_pc = "forward"
    /\ LET it == Iteration("forward", t_pair, prices_dict, trading_fee,
                           swap_locals)
       IN  /\ it.err = "none"
           /\ swap_locals' = it.locals
           /\ surface_dict' = ("forward" :> it.result)
    /\ calc_pc' = "reverse"
    /\ UNCHANGED <<t_pair, prices_dict, trading_fee>>
    /\ UNCHANGED build_vars

CalcForwardRaise ==
    /\ calc_pc = "forward"
    /\ LET it == Iteration("forward", t_pair, prices_dict, trading_fee,
                           swap_locals)
       IN  /\ it.err # "none"
           /\ swap_locals' = it.locals
    /\ calc_pc' = "raised"
    /\ UNCHANGED <<t_pair, prices_dict, trading_fee, surface_dict>>
    /\ UNCHANGED build_vars

\* the reverse iteration and the return of line 246
CalcReverse ==
    /\ calc_pc = "reverse"
    /\ LET it == Iteration("reverse", t_pair, prices_dict, trading_fee,
                           swap_locals)
       IN  /\ it.err = "none"
           /\ swap_locals' = it.locals
           /\ surface_dict' = surface_dict @@ ("reverse" :> it.result)
    /\ calc_pc' = "returned"
    /\ UNCHANGED <<t_pair, prices_dict, trading_fee>>
    /\ UNCHANGED build_vars

CalcReverseRaise ==
    /\ calc_pc = "reverse"
    /\ LET it == Iteration("reverse", t_pair, prices_dict, trading_fee,
                           swap_locals)
       IN  /\ it.err # "none"
           /\ swap_locals' = it.locals
    /\ calc_pc' = "raised"
    /\ UNCHANGED <<t_pair, prices_dict, trading_fee, surface_dict>>
    /\ UNCHANGED build_vars

NextCalc == CalcForward \/ CalcForwardRaise \/ CalcReverse \/ CalcReverseRaise

SpecCalc == InitCalc /\ [][NextCalc]_vars

(***************************************************************************)
(* Properties of the cycle builder (SpecBuild)                             *)
(***************************************************************************)

Base(market) == Split(market)[1]

Quote(market) == Split(market)[2]

\* three distinct markets over exactly three currencies, each currency in
\* exactly two of the markets
IsTriangle(m1, m2, m3) ==
    LET ms == {m1, m2, m3}
        cs == {Base(m) : m \in ms} \cup {Quote(m) : m \in ms}
    IN  /\ Cardinality(ms) = 3
        /\ Cardinality(cs) = 3
        /\ \A c \in cs :
              Cardinality({m \in ms : c = Base(m) \/ c = Quote(m)}) = 2

SixSymbols(t) ==
    <<t.a_base, t.a_quote, t.b_base, t.b_quote, t.c_base, t.c_quote>>

Closed(t) ==
    LET six == SixSymbols(t)
        values == {six[i] : i \in DOMAIN six}
    IN  /\ Cardinality(values) = 3
        /\ \A v \in values : Count(six, v) = 2
        /\ t.pair_a # t.pair_b
        /\ t.pair_a # t.pair_c
        /\ t.pair_b # t.pair_c

\* C1: every cycle the builder records has six currency symbols with exactly
\* three distinct values, each occurring exactly twice, and three pairwise
\* different market symbols.
ClosureInvariant ==
    \A n \in DOMAIN triangular_pairs_list : Closed(triangular_pairs_list[n])

\* a returned cycle from a list that holds a market and its reverse
ClosureWitness ==
    /\ build_status = "returned"
    /\ triangular_pairs_list # <<>>
    /\ \E i, j \in DOMAIN coin_list :
          /\ Base(coin_list[i]) # Quote(coin_list[i])
          /\ Base(coin_list[i]) = Quote(coin_list[j])
          /\ Quote(coin_list[i]) = Base(coin_list[j])

\* C2: when the builder returns, every unordered triple of distinct markets
\* of the list that forms a triangle is represented by a returned cycle.
CompletenessClaim ==
    build_status = "returned" =>
        \A i, j, k \in DOMAIN coin_list :
            IsTriangle(coin_list[i], coin_list[j], coin_list[k]) =>
                \E n \in DOMAIN triangular_pairs_list :
                    Markets(triangular_pairs_list[n])
                        = {coin_list[i], coin_list[j], coin_list[k]}

\* C3: no two returned cycles have the same set of three market symbols, and
\* a list of three markets that form a triangle, in any order, returns
\* exactly one cycle.
DedupProperty ==
    /\ \A m, n \in DOMAIN triangular_pairs_list :
          m # n => Markets(triangular_pairs_list[m])
                     # Markets(triangular_pairs_list[n])
    /\ ( /\ build_status = "returned"
         /\ Len(coin_list) = 3
         /\ IsTriangle(coin_list[1], coin_list[2], coin_list[3]) )
       => Len(triangular_pairs_list) = 1

\* the builder returned on a list of exactly the three markets of a triangle
DedupWitness ==
    /\ build_status = "returned"
    /\ Len(coin_list) = 3
    /\ IsTriangle(coin_list[1], coin_list[2], coin_list[3])
    /\ Len(triangular_pairs_list) = 1

HasMalformed == \E i \in DOMAIN coin_list : ~(Len(Split(coin_list[i])) = 2)

\* C8: on a non-empty list with a symbol that has not exactly one separator
\* the builder never returns, and its first pair_a iteration ends in the
\* error.
MalformedFailsFast ==
    (coin_list # <<>> /\ HasMalformed) =>
        /\ build_status # "returned"
        /\ idx > 0 => build_status = "raised"

\* the error is raised for a malformed symbol in last position, after two
\* well-formed markets that share no currency
MalformedWitness ==
    /\ build_status = "raised"
    /\ Len(coin_list) = 3
    /\ Len(Split(coin_list[1])) = 2
    /\ Len(Split(coin_list[2])) = 2
    /\ Len(Split(coin_list[3])) # 2
    /\ coin_list[1] # coin_list[2]
    /\ {Base(coin_list[1]), Quote(coin_list[1])}
         \cap {Base(coin_list[2]), Quote(coin_list[2])} = {}

(***************************************************************************)
(* Properties of the surface rate calculator (SpecCalc)                    *)
(***************************************************************************)

Directions == DOMAIN surface_dict

\* source and target currency of a step on a market, read from its tag
Source(market, tag) ==
    IF tag = "base_to_quote" THEN Base(market) ELSE Quote(market)

Target(market, tag) ==
    IF tag = "base_to_quote" THEN Quote(market) ELSE Base(market)

\* the three steps of a result as <<market, rate, tag>>
Steps(res) ==
    << <<t_pair.pair_a, res.swap_1[3], res.swap_1[4]>>, res.swap_2, res.swap_3 >>

\* the quote a step reads: the ask for base_to_quote, the bid otherwise
StepKey(step) ==
    step[1] \o <<IF step[3] = "base_to_quote" THEN "_ask" ELSE "_bid">>

\* C4: the three forward steps chain: swap 1 goes a_base -> a_quote on
\* pair_a, swap 2 starts from a_quote, swap 3 starts from the target of
\* swap 2 and ends in a_base.
ForwardChainClaim ==
    "forward" \in Directions =>
        LET f == surface_dict["forward"]
        IN  /\ f.swap_1[1] = t_pair.a_base
            /\ f.swap_1[2] = t_pair.a_quote
            /\ f.swap_1[4] = "base_to_quote"
            /\ Source(f.swap_2[1], f.swap_2[3]) = t_pair.a_quote
            /\ Source(f.swap_3[1], f.swap_3[3])
                 = Target(f.swap_2[1], f.swap_2[3])
            /\ Target(f.swap_3[1], f.swap_3[3]) = t_pair.a_base

SomeAbsent == DOMAIN prices_dict # Keys(t_pair)

PresentPositive == \A k \in DOMAIN prices_dict : Less(Zero, prices_dict[k])

UsesAbsent(res) ==
    \E n \in 1..3 : StepKey(Steps(res)[n]) \notin DOMAIN prices_dict

\* C5: with a quote absent and every present quote positive the call never
\* raises, returns both directions, every arbitrage_rate is a finite number,
\* and a direction with a step on an absent quote has arbitrage_rate -1.
MissingQuoteSafe ==
    (SomeAbsent /\ PresentPositive) =>
        /\ calc_pc # "raised"
        /\ calc_pc = "returned" => Directions = {"forward", "reverse"}
        /\ \A d \in Directions :
              /\ surface_dict[d].arbitrage_rate[2] > 0
              /\ UsesAbsent(surface_dict[d])
                   => surface_dict[d].arbitrage_rate = <<-1, 1>>

\* the call returned on a snapshot with an absent quote: one direction steps
\* on it, the other does not
MissingQuoteWitness ==
    /\ calc_pc = "returned"
    /\ SomeAbsent
    /\ PresentPositive
    /\ \E d, e \in Directions :
          /\ UsesAbsent(surface_dict[d])
          /\ ~UsesAbsent(surface_dict[e])
          /\ surface_dict[e].arbitrage_rate # <<-1, 1>>

ZeroAsk(market) ==
    /\ (market \o <<"_ask">>) \in DOMAIN prices_dict
    /\ prices_dict[market \o <<"_ask">>] = Zero

\* C6: with the ask of a market at zero the call raises no arithmetic fault
\* and every direction with a base_to_quote step on that market has
\* arbitrage_rate <= 0.
ZeroAskClaim ==
    \A m \in Markets(t_pair) :
        ZeroAsk(m) =>
            /\ calc_pc # "raised"
            /\ \A d \in Directions :
                  (\E n \in 1..3 :
                       StepKey(Steps(surface_dict[d])[n]) = m \o <<"_ask">>)
                    => Leq(surface_dict[d].arbitrage_rate, Zero)

Outcome(fee) == cal_triangular_arb_surface_rate(t_pair, prices_dict, fee)

\* C7 as stated: for a larger fee the arbitrage_rate of every direction is
\* strictly smaller.
FeeStrictClaim ==
    \A d \in Directions : \A f2 \in Fees :
        Less(trading_fee, f2) =>
            /\ Outcome(f2)[d].err = "none"
            /\ Less(Outcome(f2)[d].result.arbitrage_rate,
                    surface_dict[d].arbitrage_rate)

PositiveFinite(x) == x[1] > 0 /\ x[2] > 0

\* C7 amended: for a larger fee the call raises exactly when it raises for
\* the smaller one; otherwise the arbitrage_rate of a direction is never
\* larger, and it is strictly smaller exactly when the three rates of the
\* direction are finite and positive.
FeeMonotone ==
    \A f2 \in Fees :
        Less(trading_fee, f2) =>
            /\ calc_pc = "raised" => Outcome(f2).err # "none"
            /\ calc_pc = "returned" => Outcome(f2).err = "none"
            /\ \A d \in Directions :
                  LET mine == surface_dict[d]
                      other == Outcome(f2)[d]
                  IN  /\ other.err = "none"
                      /\ Leq(other.result.arbitrage_rate, mine.arbitrage_rate)
                      /\ Less(other.result.arbitrage_rate, mine.arbitrage_rate)
                           <=> \A n \in 1..3 : PositiveFinite(Steps(mine)[n][2])

\* the call returned under a fee below another one, with a direction whose
\* rates are all positive and a direction with a zero rate
FeeWitness ==
    /\ calc_pc = "returned"
    /\ \E f2 \in Fees : Less(trading_fee, f2)
    /\ \E d, e \in Directions :
          /\ \A n \in 1..3 : PositiveFinite(Steps(surface_dict[d])[n][2])
          /\ \E n \in 1..3 : Steps(surface_dict[e])[n][2] = Zero

ReverseSelected ==
    t_pair.a_base = t_pair.b_base \/ t_pair.a_base = t_pair.b_quote

\* C9: for every cycle of the builder one of the two conditions of the
\* reverse direction holds.
ReverseExhaustiveClaim ==
    calc_pc # "idle" => ReverseSelected

\* C10: when a_base is neither b_base nor b_quote the reverse iteration
\* raises no error, its swap_2 and swap_3 entries are the forward ones and
\* its arbitrage_rate is bid(pair_a) times the forward swap-2 and swap-3
\* rates times (1 - fee)^3, minus 1; otherwise its swap_2 and swap_3
\* entries are those computed from the cycle and the snapshot alone.
CarryOverClaim ==
    "forward" \in Directions =>
        IF ~ReverseSelected
        THEN /\ calc_pc # "raised"
             /\ "reverse" \in Directions =>
                   LET f == surface_dict["forward"]
                       r == surface_dict["reverse"]
                       factor == Sub(One, trading_fee)
                   IN  /\ r.swap_2 = f.swap_2
                       /\ r.swap_3 = f.swap_3
                       /\ r.arbitrage_rate =
                            Sub(Mul(Mul(Mul(Bid(prices_dict, t_pair.pair_a),
                                            f.swap_2[2]), f.swap_3[2]),
                                    Mul(factor, Mul(factor, factor))), One)
        ELSE "reverse" \in Directions =>
                LET fresh == ReverseSwaps(t_pair, prices_dict, IdleLocals)
                    r == surface_dict["reverse"]
                IN  /\ r.swap_2 = <<fresh.contract_2, fresh.swap_2_rate,
                                    fresh.direction_trade_2>>
                    /\ r.swap_3 = <<fresh.contract_3, fresh.swap_3_rate,
                                    fresh.direction_trade_3>>

====
